---------------------------- MODULE Spec2Model ----------------------------
(***************************************************************************)
(* A model of rust_llm/src/llm/train_gpt2.rs: layernorm_forward and        *)
(* layernorm_backward over flat f32 buffers addressed by (b, t, c).        *)
(*                                                                         *)
(* Numbers.  An f32 is modelled as an exact rational <<n, d>> in lowest    *)
(* terms with d > 0, or as NaN (<<0, 0>>).  +, -, * and / are exact (the   *)
(* rounding of f32 is abstracted away); powf(-0.5) is irrational in        *)
(* general and is rounded down to a multiple of 1/RstdGrid.  0.0 / 0.0 is  *)
(* NaN, and NaN propagates through every operation, as in IEEE 754.        *)
(*                                                                         *)
(* Buffers.  A slice is a sequence; the code's 0-based offset k is the     *)
(* sequence index k + 1.  An index or a range beyond the length of a slice *)
(* panics (Rust's bounds check): the call stops there, and what it wrote   *)
(* before stays written.                                                   *)
(***************************************************************************)
EXTENDS Integers, Sequences, FiniteSets, TLC

\* ------------------------------------------------------------------------
\* Bounds of the model
\* ------------------------------------------------------------------------
MaxB == 2
MaxT == 2
MaxC == 3
MaxSeed == 4
MaxCalls == 3
RstdGrid == 16

\* ------------------------------------------------------------------------
\* f32 arithmetic
\* ------------------------------------------------------------------------
NaN == <<0, 0>>

IsNaN(x) == x[2] = 0

Abs(n) == IF n < 0 THEN -n ELSE n

RECURSIVE Gcd(_, _)
Gcd(a, b) == IF b = 0 THEN a ELSE Gcd(b, a % b)

\* the rational n/d in lowest terms, with a positive denominator
Rat(n, d) ==
    IF d = 0 THEN NaN
    ELSE LET g == Gcd(Abs(n), Abs(d))
             s == IF d < 0 THEN -1 ELSE 1
         IN  <<(s * n) \div g, (s * d) \div g>>

\* `k as f32` for a usize k, and the literal 0.0
AsF32(k) == <<k, 1>>

Zero == <<0, 1>>

\* x + y over the least common denominator
FAdd(x, y) ==
    IF IsNaN(x) \/ IsNaN(y) THEN NaN
    ELSE LET g == Gcd(x[2], y[2])
         IN  Rat(x[1] * (y[2] \div g) + y[1] * (x[2] \div g), (x[2] \div g) * y[2])

FNeg(x) == <<-x[1], x[2]>>

FSub(x, y) == FAdd(x, FNeg(y))

\* x * y, the common factors cancelled before the products are taken
FMul(x, y) ==
    IF IsNaN(x) \/ IsNaN(y) THEN NaN
    ELSE LET g1 == Gcd(Abs(x[1]), y[2])
             g2 == Gcd(Abs(y[1]), x[2])
         IN  Rat((x[1] \div g1) * (y[1] \div g2), (x[2] \div g2) * (y[2] \div g1))

\* x / y.  The only divisor of the code is `channels as f32`; it is zero
\* only when channels = 0, and then the dividend is an empty sum, 0.0:
\* 0.0 / 0.0 is NaN.
FDiv(x, y) ==
    IF IsNaN(x) \/ IsNaN(y) \/ y[1] = 0 THEN NaN
    ELSE FMul(x, Rat(y[2], y[1]))

\* x.powi(2)
Powi2(x) == FMul(x, x)

\* the largest k in lo..hi with k * k <= m (lo * lo <= m is given)
RECURSIVE IsqrtIn(_, _, _)
IsqrtIn(m, lo, hi) ==
    IF lo = hi THEN lo
    ELSE LET mid == (lo + hi + 1) \div 2
         IN  IF mid * mid <= m THEN IsqrtIn(m, mid, hi)
             ELSE IsqrtIn(m, lo, mid - 1)

Isqrt(m) == IsqrtIn(m, 0, IF m < 46340 THEN m ELSE 46340)

\* x.powf(-0.5) for x > 0, rounded down to a multiple of 1/RstdGrid:
\* floor(RstdGrid * sqrt(d/n)) / RstdGrid.  (The code only takes the power
\* of variance + EPS, which is positive or NaN.)
Powf_neg_half(x) ==
    IF IsNaN(x) \/ x[1] <= 0 THEN NaN
    ELSE Rat(Isqrt((RstdGrid * RstdGrid * x[2]) \div x[1]), RstdGrid)

EPS == <<1, 100000>>

\* ------------------------------------------------------------------------
\* Slices
\* ------------------------------------------------------------------------
\* buf[k] for the 0-based offset k
At(buf, k) == buf[k + 1]

\* whether buf[k] is within bounds
InBounds(buf, k) == k < Len(buf)

\* buf[k] = v
Store(buf, k, v) == [buf EXCEPT ![k + 1] = v]


\* ------------------------------------------------------------------------
\* layernorm_forward
\*   m: what the call writes, [out, mean_array, rstd_array], and `panicked`
\*   a: what it reads, [inp, weights, biases, sequence_length, channels]
\* ------------------------------------------------------------------------
XOffsetStartNoBatch(b, t, T, C) == t * C

\* let x_offset_start = b_idx * sequence_length * channels + t_idx * channels
XOffsetStart(b, t, T, C) == b * T * C + t * C

\* the index b_idx * sequence_length + t_idx into mean_array and rstd_array
StatOffset(b, t, T) == b * T + t

\* inp[start .. start + n].iter().sum::<f32>(): a left fold from 0.0
RECURSIVE SliceSum(_, _, _)
SliceSum(xs, start, n) ==
    IF n = 0 THEN Zero
    ELSE FAdd(SliceSum(xs, start, n - 1), At(xs, start + n - 1))

\* inp[start .. start + n].iter().fold(0.0, |acc, x| acc + (x - mean).powi(2))
RECURSIVE SqDevFold(_, _, _, _)
SqDevFold(xs, start, n, mean) ==
    IF n = 0 THEN Zero
    ELSE FAdd(SqDevFold(xs, start, n - 1, mean),
              Powi2(FSub(At(xs, start + n - 1), mean)))

MeanOf(xs, start, C) == FDiv(SliceSum(xs, start, C), AsF32(C))

VarianceOf(xs, start, C, mean) == FDiv(SqDevFold(xs, start, C, mean), AsF32(C))

RstdNoEps(variance) == Powf_neg_half(variance)

RstdOf(variance) == Powf_neg_half(FAdd(variance, EPS))

Normalized(x, mean, rstd) == FMul(FSub(x, mean), rstd)

Output(normalized, w, b) == FAdd(FMul(normalized, w), b)

StoreOutAccumulating(old, output) == FAdd(old, output)

\* out[x_offset] = output
StoreOut(old, output) == output

\* for i in i..channels { ... out[x_offset] = output; }
RECURSIVE ForwardChannels(_, _, _, _, _, _)
ForwardChannels(m, i, x_offset_start, mean, rstd, a) ==
    IF i >= a.channels \/ m.panicked THEN m
    ELSE LET x_offset == x_offset_start + i
         IN  IF ~(InBounds(a.weights, i) /\ InBounds(a.biases, i)
                  /\ InBounds(m.out, x_offset))
             THEN [m EXCEPT !.panicked = TRUE]
             ELSE LET normalized == Normalized(At(a.inp, x_offset), mean, rstd)
                      output == Output(normalized, At(a.weights, i), At(a.biases, i))
                      wrote == [m EXCEPT !.out =
                                  Store(m.out, x_offset, StoreOut(At(m.out, x_offset), output))]
                  IN  ForwardChannels(wrote, i + 1, x_offset_start, mean, rstd, a)

\* the body of the two loops, for the position (b, t)
ForwardPos(m, b, t, a) ==
    IF m.panicked THEN m
    ELSE LET x_offset_start == XOffsetStart(b, t, a.sequence_length, a.channels)
             x_offset_end == x_offset_start + a.channels
         IN  IF x_offset_end > Len(a.inp) THEN [m EXCEPT !.panicked = TRUE]
             ELSE LET mean == MeanOf(a.inp, x_offset_start, a.channels)
                      variance == VarianceOf(a.inp, x_offset_start, a.channels, mean)
                      rstd == RstdOf(variance)
                      m1 == ForwardChannels(m, 0, x_offset_start, mean, rstd, a)
                      s == StatOffset(b, t, a.sequence_length)
                  IN  IF m1.panicked THEN m1
                      ELSE IF ~InBounds(m1.mean_array, s)
                           THEN [m1 EXCEPT !.panicked = TRUE]
                      ELSE IF ~InBounds(m1.rstd_array, s)
                           THEN [m1 EXCEPT !.mean_array = Store(m1.mean_array, s, mean),
                                           !.panicked = TRUE]
                      ELSE [m1 EXCEPT !.mean_array = Store(m1.mean_array, s, mean),
                                      !.rstd_array = Store(m1.rstd_array, s, rstd)]

\* for b_idx in 0..batch_size { for t_idx in 0..sequence_length { ... } }:
\* the p-th position visited is (p div sequence_length, p mod sequence_length)
RECURSIVE ForwardLoop(_, _, _, _)
ForwardLoop(m, p, n, a) ==
    IF p >= n THEN m
    ELSE ForwardLoop(ForwardPos(m, p \div a.sequence_length, p % a.sequence_length, a),
                     p + 1, n, a)

layernorm_forward(m, a, B) == ForwardLoop(m, 0, B * a.sequence_length, a)

\* ------------------------------------------------------------------------
\* layernorm_backward
\*   g: what the call writes, [dinp, dweight, dbias], `panicked`, and the
\*      locals dnorm_mean, dnorm_norm_mean as the last position left them
\*   a: what it reads, [dout, input, weights, means, rstds,
\*      sequence_length, channels]
\* ------------------------------------------------------------------------
BatchOffset(b, t, T) == b * T + t

SequenceOffset(C, batch_offset) == C * batch_offset

NormBti(a, i, sequence_offset, mean_bt, rstd_bt) ==
    FMul(FSub(At(a.input, i + sequence_offset), mean_bt), rstd_bt)

DnormI(a, i, sequence_offset) ==
    FMul(At(a.weights, i), At(a.dout, sequence_offset + i))

AccumulatorsKept(prev) == prev

\* let mut dnorm_mean: f32 = 0.0; let mut dnorm_norm_mean: f32 = 0.0;
\* (prev: the values the previous position left in them)
Accumulators(prev) == [dnorm_mean |-> Zero, dnorm_norm_mean |-> Zero]

\* one iteration of the first loop over the channels
Pass1Iter(acc, i, a, sequence_offset, mean_bt, rstd_bt) ==
    LET norm_bti == NormBti(a, i, sequence_offset, mean_bt, rstd_bt)
        dnorm_i == DnormI(a, i, sequence_offset)
    IN  [dnorm_mean |-> FAdd(acc.dnorm_mean, dnorm_i),
         dnorm_norm_mean |-> FAdd(acc.dnorm_norm_mean, FMul(dnorm_i, norm_bti))]

\* whether iteration i of the first loop reads within bounds
Pass1InBounds(i, a, sequence_offset) ==
    /\ InBounds(a.input, i + sequence_offset)
    /\ InBounds(a.weights, i)
    /\ InBounds(a.dout, sequence_offset + i)

RECURSIVE Pass1Loop(_, _, _, _, _, _)
Pass1Loop(acc, i, a, sequence_offset, mean_bt, rstd_bt) ==
    IF i >= a.channels THEN acc
    ELSE Pass1Loop(Pass1Iter(acc, i, a, sequence_offset, mean_bt, rstd_bt),
                   i + 1, a, sequence_offset, mean_bt, rstd_bt)

\* dnorm_mean = dnorm_mean / channels as f32; the same for dnorm_norm_mean
FinalizeMeans(acc, C) ==
    [dnorm_mean |-> FDiv(acc.dnorm_mean, AsF32(C)),
     dnorm_norm_mean |-> FDiv(acc.dnorm_norm_mean, AsF32(C))]

DbiasWeighted(old, dout_i, w) == FAdd(old, FMul(w, dout_i))

\* dbias[i] += dout[sequence_offset + i]  (w: weights[i], not used)
DbiasAdd(old, dout_i, w) == FAdd(old, dout_i)

\* dweight[i] += norm_bti * dout[sequence_offset + i]
DweightAdd(old, norm_bti, dout_i) == FAdd(old, FMul(norm_bti, dout_i))

DvalNoMean(dnorm_i, dnorm_mean, norm_bti, dnorm_norm_mean, rstd_bt) ==
    FMul(FSub(dnorm_i, FMul(norm_bti, dnorm_norm_mean)), rstd_bt)

\* dval = 0.0; dval += dnorm_i; dval -= dnorm_mean;
\* dval -= norm_bti * dnorm_norm_mean; dval *= rstd_bt;
Dval(dnorm_i, dnorm_mean, norm_bti, dnorm_norm_mean, rstd_bt) ==
    FMul(FSub(FSub(FAdd(Zero, dnorm_i), dnorm_mean),
              FMul(norm_bti, dnorm_norm_mean)),
         rstd_bt)

DinpOverwrite(old, dval) == dval

\* dinp[i + sequence_offset] += dval
DinpAdd(old, dval) == FAdd(old, dval)

\* one iteration of the second loop over the channels
Pass2Iter(g, i, a, sequence_offset, mean_bt, rstd_bt) ==
    LET norm_bti == NormBti(a, i, sequence_offset, mean_bt, rstd_bt)
        dnorm_i == DnormI(a, i, sequence_offset)
        dout_i == At(a.dout, sequence_offset + i)
        dval == Dval(dnorm_i, g.dnorm_mean, norm_bti, g.dnorm_norm_mean, rstd_bt)
    IN  IF ~InBounds(g.dbias, i) THEN [g EXCEPT !.panicked = TRUE]
        ELSE LET g1 == [g EXCEPT !.dbias =
                          Store(g.dbias, i, DbiasAdd(At(g.dbias, i), dout_i, At(a.weights, i)))]
             IN  IF ~InBounds(g1.dweight, i) THEN [g1 EXCEPT !.panicked = TRUE]
                 ELSE LET g2 == [g1 EXCEPT !.dweight =
                                   Store(g1.dweight, i,
                                         DweightAdd(At(g1.dweight, i), norm_bti, dout_i))]
                      IN  IF ~InBounds(g2.dinp, i + sequence_offset)
                          THEN [g2 EXCEPT !.panicked = TRUE]
                          ELSE [g2 EXCEPT !.dinp =
                                  Store(g2.dinp, i + sequence_offset,
                                        DinpAdd(At(g2.dinp, i + sequence_offset), dval))]

RECURSIVE Pass2Loop(_, _, _, _, _, _)
Pass2Loop(g, i, a, sequence_offset, mean_bt, rstd_bt) ==
    IF i >= a.channels \/ g.panicked THEN g
    ELSE Pass2Loop(Pass2Iter(g, i, a, sequence_offset, mean_bt, rstd_bt),
                   i + 1, a, sequence_offset, mean_bt, rstd_bt)

\* the accumulators as g holds them
AccOf(g) == [dnorm_mean |-> g.dnorm_mean, dnorm_norm_mean |-> g.dnorm_norm_mean]

WithAcc(g, acc) ==
    [g EXCEPT !.dnorm_mean = acc.dnorm_mean, !.dnorm_norm_mean = acc.dnorm_norm_mean]

\* the body of the two loops, for the position (b, t)
BackwardPos(g, b, t, a) ==
    IF g.panicked THEN g
    ELSE LET batch_offset == BatchOffset(b, t, a.sequence_length)
             sequence_offset == SequenceOffset(a.channels, batch_offset)
         IN  IF ~(InBounds(a.means, batch_offset) /\ InBounds(a.rstds, batch_offset))
             THEN [g EXCEPT !.panicked = TRUE]
             ELSE LET mean_bt == At(a.means, batch_offset)
                      rstd_bt == At(a.rstds, batch_offset)
                  IN  IF \E i \in 0..(a.channels - 1) :
                            ~Pass1InBounds(i, a, sequence_offset)
                      THEN [g EXCEPT !.panicked = TRUE]
                      ELSE LET sums == Pass1Loop(Accumulators(AccOf(g)), 0, a,
                                                 sequence_offset, mean_bt, rstd_bt)
                               g1 == WithAcc(g, FinalizeMeans(sums, a.channels))
                           IN  Pass2Loop(g1, 0, a, sequence_offset, mean_bt, rstd_bt)

RECURSIVE BackwardLoop(_, _, _, _)
BackwardLoop(g, p, n, a) ==
    IF p >= n THEN g
    ELSE BackwardLoop(BackwardPos(g, p \div a.sequence_length, p % a.sequence_length, a),
                      p + 1, n, a)

layernorm_backward(g, a, B) == BackwardLoop(g, 0, B * a.sequence_length, a)

\* ------------------------------------------------------------------------
\* The caller's buffers and the calls
\* ------------------------------------------------------------------------
VARIABLES
    batch_size, sequence_length, channels,   \* the shape arguments B, T, C
    out, mean_array, rstd_array,             \* written by layernorm_forward
    inp, weights, biases,                    \* activations and parameters
    dinp, dweight, dbias,                    \* written by layernorm_backward
    dout,                                    \* the upstream gradient
    outcome,     \* of the last call: "none", "ok" or "panic"
    last,        \* the last call: "none", "forward" or "backward"
    calls,       \* the number of calls made
    pre,         \* every buffer as it was when the last call began
    hist,        \* the gradient buffers around the backward calls made in a
                 \* row: before the first, and after each
    pc,          \* a backward call run step by step: where it is
    locals,      \* ... and its locals: position p, channel i, the two sums
    done         \* positions of a forward call done out of order

vars == <<batch_size, sequence_length, channels, out, mean_array, rstd_array,
          inp, weights, biases, dinp, dweight, dbias, dout,
          outcome, last, calls, pre, hist, pc, locals, done>>

shape == <<batch_size, sequence_length, channels>>

Positions == (0..(batch_size - 1)) \X (0..(sequence_length - 1))

\* the declared length of each buffer: (B,T,C), (B,T) or (C,)
DeclaredLen(name, B, T, C) ==
    CASE name \in {"out", "inp", "dinp", "dout"} -> B * T * C
      [] name \in {"mean_array", "rstd_array"} -> B * T
      [] name \in {"weights", "biases", "dweight", "dbias"} -> C

BufferNames ==
    {"out", "mean_array", "rstd_array", "inp", "weights", "biases",
     "dinp", "dweight", "dbias", "dout"}

NoSkew == [buf |-> "none", by |-> 0]

\* one buffer allocated one element too short or too long
Skews == {NoSkew} \cup [buf : BufferNames, by : {-1, 1}]

AllocLen(name, skew, B, T, C) ==
    LET n == DeclaredLen(name, B, T, C) + (IF skew.buf = name THEN skew.by ELSE 0)
    IN  IF n < 0 THEN 0 ELSE n

\* the contents of a buffer of n elements: small integers in -2..2
Gen(seed, salt, n) ==
    [k \in 1..n |-> AsF32((((k - 1) * (seed + salt + 2) + seed + 2 * salt) % 5) - 2)]

Snapshot ==
    [out |-> out, mean_array |-> mean_array, rstd_array |-> rstd_array,
     inp |-> inp, weights |-> weights, biases |-> biases,
     dinp |-> dinp, dweight |-> dweight, dbias |-> dbias, dout |-> dout]

Grads == [dinp |-> dinp, dweight |-> dweight, dbias |-> dbias]

NoLocals == [p |-> 0, i |-> 0, dnorm_mean |-> Zero, dnorm_norm_mean |-> Zero]

InitWith(skews) ==
    \E B \in 0..MaxB, T \in 0..MaxT, C \in 0..MaxC, seed \in 0..MaxSeed, skew \in skews :
        /\ batch_size = B /\ sequence_length = T /\ channels = C
        /\ inp = Gen(seed, 0, AllocLen("inp", skew, B, T, C))
        /\ weights = Gen(seed, 1, AllocLen("weights", skew, B, T, C))
        /\ biases = Gen(seed, 2, AllocLen("biases", skew, B, T, C))
        /\ dout = Gen(seed, 3, AllocLen("dout", skew, B, T, C))
        /\ out = Gen(seed, 4, AllocLen("out", skew, B, T, C))
        /\ mean_array = Gen(seed, 5, AllocLen("mean_array", skew, B, T, C))
        /\ rstd_array = Gen(seed, 6, AllocLen("rstd_array", skew, B, T, C))
        /\ dinp = Gen(seed, 7, AllocLen("dinp", skew, B, T, C))
        /\ dweight = Gen(seed, 8, AllocLen("dweight", skew, B, T, C))
        /\ dbias = Gen(seed, 9, AllocLen("dbias", skew, B, T, C))
        /\ outcome = "none" /\ last = "none" /\ calls = 0
        /\ pre = Snapshot
        /\ hist = <<>>
        /\ pc = "idle" /\ locals = NoLocals
        /\ done = {}

\* every buffer has its declared length
Init == InitWith({NoSkew})

\* one buffer may be too short or too long
InitAnyLen == InitWith(Skews)

ForwardArgs ==
    [inp |-> inp, weights |-> weights, biases |-> biases,
     sequence_length |-> sequence_length, channels |-> channels]

ForwardDest ==
    [out |-> out, mean_array |-> mean_array, rstd_array |-> rstd_array,
     panicked |-> FALSE]

BackwardArgs ==
    [dout |-> dout, input |-> inp, weights |-> weights,
     means |-> mean_array, rstds |-> rstd_array,
     sequence_length |-> sequence_length, channels |-> channels]

BackwardDest ==
    [dinp |-> dinp, dweight |-> dweight, dbias |-> dbias, panicked |-> FALSE,
     dnorm_mean |-> Zero, dnorm_norm_mean |-> Zero]

\* a call of layernorm_forward on the caller's buffers (the calls are
\* synchronous: none begins while another runs)
Forward ==
    /\ pc = "idle"
    /\ calls < MaxCalls
    /\ LET r == layernorm_forward(ForwardDest, ForwardArgs, batch_size)
       IN  /\ out' = r.out
           /\ mean_array' = r.mean_array
           /\ rstd_array' = r.rstd_array
           /\ outcome' = IF r.panicked THEN "panic" ELSE "ok"
    /\ last' = "forward"
    /\ calls' = calls + 1
    /\ pre' = Snapshot
    /\ hist' = <<>>
    /\ UNCHANGED <<shape, inp, weights, biases, dinp, dweight, dbias, dout,
                   pc, locals, done>>

BackwardEffectScalingDout(r) ==
    /\ dinp' = r.dinp
    /\ dweight' = r.dweight
    /\ dbias' = r.dbias
    /\ dout' = [k \in DOMAIN dout |-> FMul(dout[k], AsF32(2))]
    /\ UNCHANGED <<out, mean_array, rstd_array, inp, weights, biases>>

\* what a call that ended with r leaves in the caller's buffers: dinp,
\* dweight and dbias as written; dout, though `&mut`, is never assigned
BackwardEffect(r) ==
    /\ dinp' = r.dinp
    /\ dweight' = r.dweight
    /\ dbias' = r.dbias
    /\ UNCHANGED <<out, mean_array, rstd_array, inp, weights, biases, dout>>

\* a call of layernorm_backward on the caller's buffers
Backward ==
    /\ pc = "idle"
    /\ calls < MaxCalls
    /\ LET r == layernorm_backward(BackwardDest, BackwardArgs, batch_size)
       IN  /\ BackwardEffect(r)
           /\ outcome' = IF r.panicked THEN "panic" ELSE "ok"
    /\ last' = "backward"
    /\ calls' = calls + 1
    /\ pre' = Snapshot
    /\ hist' = Append(IF hist = <<>> THEN <<Grads>> ELSE hist, Grads')
    /\ UNCHANGED <<shape, pc, locals, done>>

Next == Forward \/ Backward

Spec == Init /\ [][Next]_vars

SpecAnyLen == InitAnyLen /\ [][Next]_vars

\* ------------------------------------------------------------------------
\* layernorm_backward, one loop iteration at a time
\* ------------------------------------------------------------------------
\* the position (batch_index, t_index) the call is at
CurB == locals.p \div sequence_length

CurT == locals.p % sequence_length

CurBatchOffset == BatchOffset(CurB, CurT, sequence_length)

CurSequenceOffset == SequenceOffset(channels, CurBatchOffset)

CurAcc == [dnorm_mean |-> locals.dnorm_mean, dnorm_norm_mean |-> locals.dnorm_norm_mean]

SetAcc(l, acc) ==
    [l EXCEPT !.dnorm_mean = acc.dnorm_mean, !.dnorm_norm_mean = acc.dnorm_norm_mean]

\* the call begins
CallBackward ==
    /\ pc = "idle"
    /\ calls < MaxCalls
    /\ pc' = "loop"
    /\ locals' = NoLocals
    /\ pre' = Snapshot
    /\ UNCHANGED <<shape, out, mean_array, rstd_array, inp, weights, biases,
                   dinp, dweight, dbias, dout, outcome, last, calls, hist, done>>

\* the head of the loops, a position left: the accumulators are reset
EnterPosition ==
    /\ pc = "loop"
    /\ locals.p < batch_size * sequence_length
    /\ pc' = "pass1"
    /\ locals' = [SetAcc(locals, Accumulators(CurAcc)) EXCEPT !.i = 0]
    /\ UNCHANGED <<shape, out, mean_array, rstd_array, inp, weights, biases,
                   dinp, dweight, dbias, dout, outcome, last, calls, pre, hist, done>>

\* one iteration of the first loop over the channels
Pass1Step ==
    /\ pc = "pass1"
    /\ locals.i < channels
    /\ locals' = [SetAcc(locals,
                         Pass1Iter(CurAcc, locals.i, BackwardArgs, CurSequenceOffset,
                                   At(mean_array, CurBatchOffset),
                                   At(rstd_array, CurBatchOffset)))
                    EXCEPT !.i = locals.i + 1]
    /\ UNCHANGED <<shape, out, mean_array, rstd_array, inp, weights, biases,
                   dinp, dweight, dbias, dout, outcome, last, calls, pre, hist,
                   pc, done>>

\* the first loop is over: both sums are divided by channels
Finalize ==
    /\ pc = "pass1"
    /\ locals.i >= channels
    /\ pc' = "pass2"
    /\ locals' = [SetAcc(locals, FinalizeMeans(CurAcc, channels)) EXCEPT !.i = 0]
    /\ UNCHANGED <<shape, out, mean_array, rstd_array, inp, weights, biases,
                   dinp, dweight, dbias, dout, outcome, last, calls, pre, hist, done>>

\* one iteration of the second loop over the channels
Pass2Step ==
    /\ pc = "pass2"
    /\ locals.i < channels
    /\ LET g == [dinp |-> dinp, dweight |-> dweight, dbias |-> dbias,
                 panicked |-> FALSE,
                 dnorm_mean |-> locals.dnorm_mean,
                 dnorm_norm_mean |-> locals.dnorm_norm_mean]
           r == Pass2Iter(g, locals.i, BackwardArgs, CurSequenceOffset,
                          At(mean_array, CurBatchOffset),
                          At(rstd_array, CurBatchOffset))
       IN  /\ dinp' = r.dinp
           /\ dweight' = r.dweight
           /\ dbias' = r.dbias
    /\ locals' = [locals EXCEPT !.i = locals.i + 1]
    /\ UNCHANGED <<shape, out, mean_array, rstd_array, inp, weights, biases,
                   dout, outcome, last, calls, pre, hist, pc, done>>

\* the second loop is over: on to the next position
NextPosition ==
    /\ pc = "pass2"
    /\ locals.i >= channels
    /\ pc' = "loop"
    /\ locals' = [locals EXCEPT !.p = locals.p + 1]
    /\ UNCHANGED <<shape, out, mean_array, rstd_array, inp, weights, biases,
                   dinp, dweight, dbias, dout, outcome, last, calls, pre, hist, done>>

\* no position left: the call returns
ReturnBackward ==
    /\ pc = "loop"
    /\ locals.p >= batch_size * sequence_length
    /\ pc' = "idle"
    /\ outcome' = "ok"
    /\ last' = "backward"
    /\ calls' = calls + 1
    /\ hist' = Append(IF hist = <<>> THEN <<[k \in {"dinp", "dweight", "dbias"} |-> pre[k]]>>
                      ELSE hist, Grads)
    /\ UNCHANGED <<shape, out, mean_array, rstd_array, inp, weights, biases,
                   dinp, dweight, dbias, dout, pre, locals, done>>

NextSteps ==
    \/ Forward
    \/ CallBackward
    \/ EnterPosition
    \/ Pass1Step
    \/ Finalize
    \/ Pass2Step
    \/ NextPosition
    \/ ReturnBackward

\* the buffers have their declared lengths, so no step panics
SpecSteps == Init /\ [][NextSteps]_vars

\* ------------------------------------------------------------------------
\* layernorm_forward, its positions taken in any order
\* ------------------------------------------------------------------------
\* the body of the loops runs for a position not yet done
ForwardPosition(b, t) ==
    /\ <<b, t>> \notin done
    /\ LET r == ForwardPos(ForwardDest, b, t, ForwardArgs)
       IN  /\ out' = r.out
           /\ mean_array' = r.mean_array
           /\ rstd_array' = r.rstd_array
    /\ done' = done \cup {<<b, t>>}
    /\ UNCHANGED <<shape, inp, weights, biases, dinp, dweight, dbias, dout,
                   outcome, last, calls, pre, hist, pc, locals>>

NextAnyOrder == \E pos \in Positions : ForwardPosition(pos[1], pos[2])

SpecAnyOrder == Init /\ [][NextAnyOrder]_vars

\* The step-by-step call returns what the call as a whole returns.
StepsAgreeWithCall ==
    (pc = "idle" /\ last = "backward") =>
        LET r == layernorm_backward(
                    [dinp |-> pre.dinp, dweight |-> pre.dweight, dbias |-> pre.dbias,
                     panicked |-> FALSE, dnorm_mean |-> Zero, dnorm_norm_mean |-> Zero],
                    BackwardArgs, batch_size)
        IN  dinp = r.dinp /\ dweight = r.dweight /\ dbias = r.dbias

\* ------------------------------------------------------------------------
\* What the claims speak of
\* ------------------------------------------------------------------------
\* f[0] + ... + f[n - 1]
RECURSIVE SumF(_, _)
SumF(f, n) == IF n = 0 THEN Zero ELSE FAdd(SumF(f, n - 1), f[n - 1])

Two == AsF32(2)

NumPositions == batch_size * sequence_length

\* the offset of the logical element (b, t, c), and of the statistic (b, t)
ElemOffset(b, t, c) == b * sequence_length * channels + t * channels + c

PosOffset(b, t) == b * sequence_length + t

Chans == 0..(channels - 1)

HasLen(buf, name) == Len(buf) = DeclaredLen(name, batch_size, sequence_length, channels)

ForwardShapesValid ==
    /\ HasLen(out, "out") /\ HasLen(mean_array, "mean_array")
    /\ HasLen(rstd_array, "rstd_array") /\ HasLen(inp, "inp")
    /\ HasLen(weights, "weights") /\ HasLen(biases, "biases")

BackwardShapesValid ==
    /\ HasLen(dinp, "dinp") /\ HasLen(dweight, "dweight") /\ HasLen(dbias, "dbias")
    /\ HasLen(dout, "dout") /\ HasLen(inp, "inp") /\ HasLen(weights, "weights")
    /\ HasLen(mean_array, "mean_array") /\ HasLen(rstd_array, "rstd_array")

ForwardDestUntouched ==
    out = pre.out /\ mean_array = pre.mean_array /\ rstd_array = pre.rstd_array

GradsUntouched ==
    dinp = pre.dinp /\ dweight = pre.dweight /\ dbias = pre.dbias

\* the mathematical layer at position (b, t), from inp, weights and biases
TrueMean(b, t) ==
    FDiv(SumF([c \in Chans |-> At(inp, ElemOffset(b, t, c))], channels), AsF32(channels))

TrueVariance(b, t) ==
    FDiv(SumF([c \in Chans |-> Powi2(FSub(At(inp, ElemOffset(b, t, c)), TrueMean(b, t)))],
              channels),
         AsF32(channels))

RstdWith(b, t, epsilon) == Powf_neg_half(FAdd(TrueVariance(b, t), epsilon))

LayerOutput(b, t, c) ==
    FAdd(FMul(FMul(FSub(At(inp, ElemOffset(b, t, c)), TrueMean(b, t)), RstdWith(b, t, EPS)),
              At(weights, c)),
         At(biases, c))

\* the normalized value backward recomputes from the saved statistics
SavedNorm(b, t, c) ==
    FMul(FSub(At(inp, ElemOffset(b, t, c)), At(mean_array, PosOffset(b, t))),
         At(rstd_array, PosOffset(b, t)))

\* position number p in row-major order
PosB(p) == p \div sequence_length

PosT(p) == p % sequence_length

\* C1: a call of layernorm_forward or layernorm_backward with a buffer whose
\* length is not the declared one (B*T*C, B*T or C) fails, and leaves every
\* buffer it writes as it was before the call.
C1_InvalidShapeRejected ==
    /\ (last = "forward" /\ ~ForwardShapesValid) =>
            (outcome = "panic" /\ ForwardDestUntouched)
    /\ (last = "backward" /\ ~BackwardShapesValid) =>
            (outcome = "panic" /\ GradsUntouched)

\* C2: a call of layernorm_forward with channels = 0 is rejected: it divides
\* nothing by C and writes nothing into out, mean_array or rstd_array.
C2_ZeroChannelsRejected ==
    (last = "forward" /\ channels = 0) => ForwardDestUntouched

\* G + 2 * (H - G), slot by slot
Doubled(G, H) == [k \in DOMAIN G |-> FAdd(G[k], FMul(Two, FSub(H[k], G[k])))]

\* C3: accumulation law.  When a backward call takes the gradient buffers
\* from G to G + D, a second call with the same arguments takes them to
\* G + 2 * D.
C3_AccumulationLaw ==
    (last = "backward" /\ outcome = "ok") =>
        \A k \in 1..(Len(hist) - 2) :
            /\ hist[k + 2].dinp = Doubled(hist[k].dinp, hist[k + 1].dinp)
            /\ hist[k + 2].dweight = Doubled(hist[k].dweight, hist[k + 1].dweight)
            /\ hist[k + 2].dbias = Doubled(hist[k].dbias, hist[k + 1].dbias)

\* C3's case: two backward calls in a row, the first of which changed all
\* three gradient buffers.
C3_Witness ==
    /\ last = "backward" /\ outcome = "ok" /\ Len(hist) >= 3
    /\ hist[2].dinp # hist[1].dinp
    /\ hist[2].dweight # hist[1].dweight
    /\ hist[2].dbias # hist[1].dbias

\* C4: layernorm_forward overwrites its destinations.  After a call, every
\* slot of out, mean_array and rstd_array holds the value the layer has at
\* that slot, a function of inp, weights, biases, the shape and epsilon
\* alone, whatever the three buffers held before.
C4_ForwardOverwrites ==
    (last = "forward" /\ outcome = "ok") =>
        /\ Len(out) = NumPositions * channels
        /\ Len(mean_array) = NumPositions /\ Len(rstd_array) = NumPositions
        /\ \A pos \in Positions :
            /\ At(mean_array, PosOffset(pos[1], pos[2])) = TrueMean(pos[1], pos[2])
            /\ At(rstd_array, PosOffset(pos[1], pos[2])) = RstdWith(pos[1], pos[2], EPS)
            /\ \A c \in Chans :
                At(out, ElemOffset(pos[1], pos[2], c)) = LayerOutput(pos[1], pos[2], c)

\* C4's case: a forward call over several positions and channels that
\* changed all three destinations.
C4_Witness ==
    /\ last = "forward" /\ outcome = "ok"
    /\ NumPositions >= 2 /\ channels >= 2
    /\ out # pre.out /\ mean_array # pre.mean_array /\ rstd_array # pre.rstd_array

\* the slots of position pos hold what the layer has there
PositionWritten(pos) ==
    /\ At(mean_array, PosOffset(pos[1], pos[2])) = TrueMean(pos[1], pos[2])
    /\ At(rstd_array, PosOffset(pos[1], pos[2])) = RstdWith(pos[1], pos[2], EPS)
    /\ \A c \in Chans :
        At(out, ElemOffset(pos[1], pos[2], c)) = LayerOutput(pos[1], pos[2], c)

\* the slots of position pos hold what they held before the call
PositionUntouched(pos) ==
    /\ At(mean_array, PosOffset(pos[1], pos[2])) = At(pre.mean_array, PosOffset(pos[1], pos[2]))
    /\ At(rstd_array, PosOffset(pos[1], pos[2])) = At(pre.rstd_array, PosOffset(pos[1], pos[2]))
    /\ \A c \in Chans :
        At(out, ElemOffset(pos[1], pos[2], c)) = At(pre.out, ElemOffset(pos[1], pos[2], c))

\* what the call in the code's order leaves, from the buffers as they were
InOrderResult ==
    layernorm_forward(
        [out |-> pre.out, mean_array |-> pre.mean_array, rstd_array |-> pre.rstd_array,
         panicked |-> FALSE],
        ForwardArgs, batch_size)

\* C5: the work of layernorm_forward for position (b, t) reads the C inputs
\* at b*T*C + t*C + c and writes the C outputs at the same offsets and the
\* statistic slot b*T + t, and nothing else: whatever the order in which
\* positions are done, the slots of a position done hold the layer's values
\* for it, the slots of a position not yet done are untouched, and when all
\* are done the buffers are those the call in the code's order leaves.
C5_PositionsIndependent ==
    /\ \A pos \in Positions :
        IF pos \in done THEN PositionWritten(pos) ELSE PositionUntouched(pos)
    /\ done = Positions =>
        /\ out = InOrderResult.out
        /\ mean_array = InOrderResult.mean_array
        /\ rstd_array = InOrderResult.rstd_array

\* C5's case: all of several positions done, in whatever order, and the
\* destinations changed.
C5_Witness ==
    /\ done = Positions /\ NumPositions >= 3 /\ channels >= 2
    /\ PositionUntouched(<<0, 0>>) = FALSE
    /\ out # pre.out /\ mean_array # pre.mean_array

\* C6: single-writer frame.  layernorm_forward changes nothing but out,
\* mean_array and rstd_array; layernorm_backward changes nothing but dinp,
\* dweight and dbias, and in particular not dout.
C6_Frame ==
    /\ last = "forward" =>
        /\ inp = pre.inp /\ weights = pre.weights /\ biases = pre.biases
        /\ dout = pre.dout /\ GradsUntouched
    /\ last = "backward" =>
        /\ dout = pre.dout /\ inp = pre.inp /\ weights = pre.weights
        /\ biases = pre.biases /\ ForwardDestUntouched

\* C6's case: a backward call, after a forward call, that read a nonzero
\* dout and changed the gradients.
C6_Witness ==
    /\ last = "backward" /\ outcome = "ok" /\ calls >= 2
    /\ \E k \in DOMAIN dout : dout[k] # Zero
    /\ dinp # pre.dinp /\ dbias # pre.dbias

\* C7: after layernorm_backward, for every channel i,
\*   dbias[i]   = old dbias[i]   + the sum over all positions of dout[b,t,i]
\*   dweight[i] = old dweight[i] + the sum over all positions of
\*                                 normalized(b,t,i) * dout[b,t,i]
\* with normalized(b,t,i) = (input[b,t,i] - means[b,t]) * rstds[b,t].
C7_ParameterGradients ==
    (last = "backward" /\ outcome = "ok") =>
        \A i \in Chans :
            /\ At(dbias, i) =
                FAdd(At(pre.dbias, i),
                     SumF([p \in 0..(NumPositions - 1) |->
                            At(dout, ElemOffset(PosB(p), PosT(p), i))], NumPositions))
            /\ At(dweight, i) =
                FAdd(At(pre.dweight, i),
                     SumF([p \in 0..(NumPositions - 1) |->
                            FMul(SavedNorm(PosB(p), PosT(p), i),
                                 At(dout, ElemOffset(PosB(p), PosT(p), i)))], NumPositions))

\* C7's case: a backward call over several positions that changed dbias and
\* dweight, with a weight that is not 1.
C7_Witness ==
    /\ last = "backward" /\ outcome = "ok"
    /\ NumPositions >= 2 /\ channels >= 2
    /\ dbias # pre.dbias /\ dweight # pre.dweight
    /\ \E i \in Chans : At(weights, i) # AsF32(1) /\ At(dbias, i) # At(pre.dbias, i)

\* what the call added to dinp at (b, t, c)
DinpIncrement(b, t, c) ==
    FSub(At(dinp, ElemOffset(b, t, c)), At(pre.dinp, ElemOffset(b, t, c)))

\* C8: zero-mean input gradient.  At a position whose saved mean is the
\* arithmetic mean of its C inputs, the increments layernorm_backward adds
\* to dinp over the C channels sum to zero, whatever dout, weights and rstd.
C8_ZeroMeanInputGradient ==
    (last = "backward" /\ outcome = "ok" /\ channels > 0) =>
        \A pos \in Positions :
            At(mean_array, PosOffset(pos[1], pos[2])) = TrueMean(pos[1], pos[2]) =>
                SumF([c \in Chans |-> DinpIncrement(pos[1], pos[2], c)], channels) = Zero

\* C8's case: a backward call on the statistics of the matching forward call
\* that added something to dinp at a position.
C8_Witness ==
    /\ last = "backward" /\ outcome = "ok" /\ channels >= 2
    /\ \E pos \in Positions :
        /\ At(mean_array, PosOffset(pos[1], pos[2])) = TrueMean(pos[1], pos[2])
        /\ At(rstd_array, PosOffset(pos[1], pos[2])) = RstdWith(pos[1], pos[2], EPS)
        /\ \E c \in Chans : DinpIncrement(pos[1], pos[2], c) # Zero

\* the epsilons a caller may wish to use
CallerEpsilons == {EPS, <<1, 1000>>, <<1, 10>>}

FullDnormMean ==
    FDiv(SumF([c \in Chans |->
                FMul(At(weights, c), At(dout, ElemOffset(CurB, CurT, c)))], channels),
         AsF32(channels))

FullDnormNormMean ==
    FDiv(SumF([c \in Chans |->
                FMul(FMul(At(weights, c), At(dout, ElemOffset(CurB, CurT, c))),
                     SavedNorm(CurB, CurT, c))], channels),
         AsF32(channels))

\* the value the second pass adds to dinp[b,t,i], from the full averages
FullDval(i) ==
    FMul(FSub(FSub(FMul(At(weights, i), At(dout, ElemOffset(CurB, CurT, i))),
                   FullDnormMean),
              FMul(SavedNorm(CurB, CurT, i), FullDnormNormMean)),
         At(rstd_array, PosOffset(CurB, CurT)))

\* C10: two-pass ordering.  A step of layernorm_backward writes to dinp,
\* dweight or dbias only in the second pass, by when dnorm_mean and
\* dnorm_norm_mean are the averages over all C channels of the current
\* position; and what it adds to dinp[b,t,i] is
\* (weights[i]*dout[b,t,i] - dnorm_mean - normalized_i * dnorm_norm_mean) * rstds[b,t]
\* with those averages.
C10_TwoPassOrdering ==
    /\ [](pc = "pass2" =>
            /\ locals.dnorm_mean = FullDnormMean
            /\ locals.dnorm_norm_mean = FullDnormNormMean)
    /\ [][Grads' # Grads =>
            /\ pc = "pass2"
            /\ dinp' = Store(dinp, ElemOffset(CurB, CurT, locals.i),
                             FAdd(At(dinp, ElemOffset(CurB, CurT, locals.i)),
                                  FullDval(locals.i)))]_vars

\* C10's case: the second pass at work on a later position, past its first
\* channel, with both averages nonzero and dinp already changed.
C10_Witness ==
    /\ pc = "pass2" /\ locals.p >= 1 /\ locals.i >= 1 /\ channels >= 2
    /\ locals.dnorm_mean # Zero /\ locals.dnorm_norm_mean # Zero
    /\ dinp # pre.dinp

=============================================================================
